---- MODULE Spec2Model ----
(***************************************************************************)
(* Model of scripts/proto_to_sql.py: the translation of .proto message     *)
(* declarations into table definitions (ProtobufToSQLConverter), the       *)
(* introspection of the live PostgreSQL schema (DatabaseSchema), the diff  *)
(* of the two (SchemaManager.generate_migration) and the transactional     *)
(* execution of the resulting statements (SchemaManager.process_proto_file *)
(* driven by main).                                                        *)
(*                                                                         *)
(* Names are real strings, built with \o exactly where the code builds     *)
(* them with f-strings. A Python dict that is iterated is a sequence in    *)
(* insertion order; a dict that is only looked up is a function.           *)
(***************************************************************************)
EXTENDS Naturals, Integers, Sequences, FiniteSets, TLC

VARIABLES
    db,                   \* the committed schema of the PostgreSQL database
    tx,                   \* the schema as seen inside the connection's open transaction
    current_tables,       \* DatabaseSchema.current_tables: snapshot read at construction
    n_files,              \* len(proto_files) in main
    file_idx,             \* position of main's loop over proto_files
    proto_file,           \* the file being processed: [stem, messages]
    new_tables,           \* converter.tables as returned by parse_proto_file
    migration_statements, \* the batch returned by generate_migration
    second_statements,    \* the batch returned by a second generate_migration call
    stmt_idx,             \* position of the cursor loop over migration_statements
    pc,                   \* control point
    outcome,              \* how the last process_proto_file call ended
    schema_before,        \* history: the database schema when the batch began
    runs                  \* number of invocations of main so far

vars == <<db, tx, current_tables, n_files, file_idx, proto_file, new_tables,
          migration_statements, second_statements, stmt_idx, pc, outcome,
          schema_before, runs>>

-----------------------------------------------------------------------------
(* Bounds of the model.                                                    *)

MaxFiles == 2       \* .proto files in the directory
MaxRuns == 2        \* invocations of main
MaxMessages == 2    \* message blocks in one generated .proto file
MaxFields == 2      \* field lines in one generated message block
MaxCols == 2        \* columns of a table handed to generate_migration directly
MaxFks == 2         \* foreign keys of a table handed to generate_migration directly

-----------------------------------------------------------------------------
(* Generic helpers.                                                        *)

None == "None"

Range(s) == {s[i] : i \in 1..Len(s)}

SeqsUpTo(S, n) == UNION {[1..k -> S] : k \in 0..n}

NoDuplicates(s) == \A i, j \in 1..Len(s) : i # j => s[i] # s[j]

\* All the orders in which the elements of a finite set can be visited.
Orderings(S) == {s \in [1..Cardinality(S) -> S] : Range(s) = S}

RECURSIVE Flatten(_)
Flatten(ss) == IF ss = <<>> THEN <<>> ELSE Head(ss) \o Flatten(Tail(ss))

-----------------------------------------------------------------------------
(* Data model: Column and Table dataclasses.                               *)

Column(name, data_type, is_nullable, is_primary_key) ==
    [name |-> name, data_type |-> data_type,
     is_nullable |-> is_nullable, is_primary_key |-> is_primary_key]

Table(name, columns, foreign_keys) ==
    [name |-> name, columns |-> columns, foreign_keys |-> foreign_keys]

\* f"FOREIGN KEY ({column}) REFERENCES {ref_table}({ref_column})"
FkText(column, ref_table, ref_column) ==
    "FOREIGN KEY (" \o column \o ") REFERENCES " \o ref_table \o "(" \o ref_column \o ")"

\* dict[key] = value on an insertion-ordered dict keyed by table name: an
\* existing key keeps its position and gets the new value.
DictSet(d, t) ==
    IF \E i \in 1..Len(d) : d[i].name = t.name
    THEN [i \in 1..Len(d) |-> IF d[i].name = t.name THEN t ELSE d[i]]
    ELSE Append(d, t)

DictKeys(d) == {d[i].name : i \in 1..Len(d)}

DictGet(d, k) == (CHOOSE i \in 1..Len(d) : d[i].name = k)

-----------------------------------------------------------------------------
(* ProtobufToSQLConverter.                                                 *)

TYPE_MAPPING ==
    [t \in {"double", "float", "int32", "int64", "uint32", "uint64", "sint32",
            "sint64", "fixed32", "fixed64", "sfixed32", "sfixed64", "bool",
            "string", "bytes", "timestamp"} |->
        CASE t = "double" -> "DOUBLE PRECISION"
          [] t = "float" -> "REAL"
          [] t \in {"int32", "uint32", "sint32", "fixed32", "sfixed32"} -> "INTEGER"
          [] t \in {"int64", "uint64", "sint64", "fixed64", "sfixed64"} -> "BIGINT"
          [] t = "bool" -> "BOOLEAN"
          [] t = "string" -> "TEXT"
          [] t = "bytes" -> "BYTEA"
          [] t = "timestamp" -> "TIMESTAMP"]

\* self.TYPE_MAPPING.get(field_type, 'TEXT')
MappedType(field_type) ==
    IF field_type \in DOMAIN TYPE_MAPPING THEN TYPE_MAPPING[field_type] ELSE "TEXT"

\* str.lower() on the identifiers the model uses.
Lower(s) ==
    CASE s \in {"Root", "ROOT"} -> "root"
      [] s \in {"Tags", "TAGS"} -> "tags"
      [] s = "Item" -> "item"
      [] OTHER -> s

\* A matched field line: (modifier, field_type, field_name); the modifier is
\* None when the line has none.
Field(modifier, field_type, field_name) ==
    [modifier |-> modifier, type |-> field_type, name |-> field_name]

Message(name, fields) == [name |-> name, fields |-> fields]

ProtoFile(stem, messages) == [stem |-> stem, messages |-> messages]

\* table_name of a message: the file stem for the message named root,
\* stem_message otherwise.
TableNameOf(table_name_base, message_name) ==
    IF Lower(message_name) = "root"
    THEN table_name_base
    ELSE table_name_base \o "_" \o Lower(message_name)

IdColumn == Column("id", "SERIAL", FALSE, TRUE)

\* array_table_name of a repeated field.
ArrayTableName(table_name, field_name) == table_name \o "_" \o field_name

handle_repeated_field(tables, array_table_name, field_type, parent_table) ==
    DictSet(tables,
            Table(array_table_name,
                  <<IdColumn,
                    Column("parent_id", "BIGINT", FALSE, FALSE),
                    Column("value", MappedType(field_type), FALSE, FALSE)>>,
                  <<FkText("parent_id", parent_table, "id")>>))

\* The loop over the lines of one message body: returns the columns of the
\* message's table and self.tables with the child tables stored so far.
RECURSIVE ParseFields(_, _, _, _)
ParseFields(fields, table_name, columns, tables) ==
    IF fields = <<>>
    THEN [columns |-> columns, tables |-> tables]
    ELSE LET f == Head(fields) IN
         IF f.modifier = "repeated"
         THEN ParseFields(Tail(fields), table_name, columns,
                  handle_repeated_field(tables,
                      ArrayTableName(table_name, f.name), f.type, table_name))
         ELSE ParseFields(Tail(fields), table_name,
                  Append(columns,
                         Column(f.name, MappedType(f.type),
                                f.modifier # "required", FALSE)),
                  tables)

\* The loop over the message blocks of the file.
RECURSIVE ParseMessages(_, _, _)
ParseMessages(messages, table_name_base, tables) ==
    IF messages = <<>>
    THEN tables
    ELSE LET m == Head(messages)
             table_name == TableNameOf(table_name_base, m.name)
             body == ParseFields(m.fields, table_name, <<IdColumn>>, tables)
         IN  ParseMessages(Tail(messages), table_name_base,
                 DictSet(body.tables, Table(table_name, body.columns, <<>>)))

parse_proto_file(file) == ParseMessages(file.messages, Lower(file.stem), <<>>)

-----------------------------------------------------------------------------
(* The PostgreSQL database behind psycopg2.  A schema maps a table name to *)
(* its catalog rows: columns as information_schema.columns reports them    *)
(* and foreign-key constraints as table_constraints / key_column_usage /   *)
(* constraint_column_usage report them.                                    *)

\* information_schema.columns.data_type of a column declared with sql_type:
\* SERIAL is no type of its own (an integer column with a sequence default)
\* and TIMESTAMP is reported under its full name.
DataTypeName(sql_type) ==
    CASE sql_type = "SERIAL" -> "integer"
      [] sql_type = "INTEGER" -> "integer"
      [] sql_type = "BIGINT" -> "bigint"
      [] sql_type = "TEXT" -> "text"
      [] sql_type = "BOOLEAN" -> "boolean"
      [] sql_type = "REAL" -> "real"
      [] sql_type = "DOUBLE PRECISION" -> "double precision"
      [] sql_type = "BYTEA" -> "bytea"
      [] sql_type = "TIMESTAMP" -> "timestamp without time zone"

\* str.upper() on the data_type values the catalog reports.
Upper(s) ==
    CASE s = "integer" -> "INTEGER"
      [] s = "bigint" -> "BIGINT"
      [] s = "text" -> "TEXT"
      [] s = "boolean" -> "BOOLEAN"
      [] s = "real" -> "REAL"
      [] s = "double precision" -> "DOUBLE PRECISION"
      [] s = "bytea" -> "BYTEA"
      [] s = "timestamp without time zone" -> "TIMESTAMP WITHOUT TIME ZONE"

CatalogColumn(name, data_type, is_nullable, is_primary_key) ==
    [column_name |-> name, data_type |-> data_type,
     is_nullable |-> is_nullable, is_primary_key |-> is_primary_key]

CatalogConstraint(name, column, ref_table, ref_column) ==
    [constraint_name |-> name, column_name |-> column,
     foreign_table_name |-> ref_table, foreign_column_name |-> ref_column]

CatalogTable(columns, constraints) == [columns |-> columns, constraints |-> constraints]

EmptySchema == [t \in {} |-> CatalogTable(<<>>, {})]

SchemaPut(schema, name, table) ==
    [t \in DOMAIN schema \cup {name} |-> IF t = name THEN table ELSE schema[t]]

ColumnNames(schema, t) == {schema[t].columns[i].column_name : i \in 1..Len(schema[t].columns)}

\* The rows of the foreign-key query for table_name.  The three catalog views
\* are joined on constraint_name alone, so a constraint name used on two
\* tables pairs every key column with every referenced column of that name.
ForeignKeyRows(schema, table_name) ==
    LET all == UNION {schema[t].constraints : t \in DOMAIN schema} IN
    {<<tc.constraint_name, kcu.column_name, ccu.foreign_table_name, ccu.foreign_column_name>> :
        <<tc, kcu, ccu>> \in
            {x \in schema[table_name].constraints \X all \X all :
                /\ x[2].constraint_name = x[1].constraint_name
                /\ x[3].constraint_name = x[1].constraint_name}}

\* DatabaseSchema._get_current_schema
get_current_schema(schema) ==
    [table_name \in DOMAIN schema |->
        Table(table_name,
              [i \in 1..Len(schema[table_name].columns) |->
                  LET row == schema[table_name].columns[i] IN
                  Column(row.column_name, Upper(row.data_type),
                         row.is_nullable = "YES", row.is_primary_key)],
              LET texts == {FkText(row[2], row[3], row[4]) :
                                row \in ForeignKeyRows(schema, table_name)}
              IN  CHOOSE s \in Orderings(texts) : TRUE)]

-----------------------------------------------------------------------------
(* SchemaManager: the statements.  A statement is a record of the parts    *)
(* the f-string puts together.                                             *)

NullableKw(is_nullable) == IF is_nullable THEN "NULL" ELSE "NOT NULL"

\* f"{col.name} {col.data_type} {nullable} {pk}".strip()
ColumnDef(col) ==
    [name |-> col.name, data_type |-> col.data_type,
     nullable |-> NullableKw(col.is_nullable),
     pk |-> IF col.is_primary_key THEN "PRIMARY KEY" ELSE ""]

CreateTable(table, column_defs) ==
    [kind |-> "CREATE TABLE", table |-> table, column_defs |-> column_defs]

AddConstraint(table, constraint, fk) ==
    [kind |-> "ADD CONSTRAINT", table |-> table, constraint |-> constraint, fk |-> fk]

AddColumn(table, column, data_type, nullable) ==
    [kind |-> "ADD COLUMN", table |-> table, column |-> column,
     data_type |-> data_type, nullable |-> nullable]

\* ALTER COLUMN c TYPE t USING c::t, ALTER COLUMN c SET nullable
AlterColumn(table, column, data_type, nullable) ==
    [kind |-> "ALTER COLUMN", table |-> table, column |-> column,
     data_type |-> data_type, nullable |-> nullable]

create_table_statements(table) ==
    <<CreateTable(table.name,
                  [i \in 1..Len(table.columns) |-> ColumnDef(table.columns[i])])>>
    \o [i \in 1..Len(table.foreign_keys) |->
            AddConstraint(table.name, "fk_" \o table.name, table.foreign_keys[i])]

\* {col.name: col for col in columns}: one entry per name, at the position of
\* the name's first column and with the name's last column.
RECURSIVE ColsDict(_, _)
ColsDict(columns, d) ==
    IF columns = <<>> THEN d ELSE ColsDict(Tail(columns), DictSet(d, Head(columns)))

\* The ADD CONSTRAINT statements of the loop over new_fks - current_fks, the
\* set being visited in the given order; n is len(statements) on entry.
FkStatements(name, order, n) ==
    [i \in 1..Len(order) |->
        AddConstraint(name, "fk_" \o name \o "_" \o ToString(n + i - 1), order[i])]

\* A reconciler that also removes what the declaration lacks: a DROP COLUMN
\* for every current column the declared table does not have.
alter_table_statements_dropping(current, new) ==
    LET new_cols == ColsDict(new.columns, <<>>)
        gone == SelectSeq(current.columns, LAMBDA col : col.name \notin DictKeys(new_cols))
    IN  {[i \in 1..Len(gone) |->
             [kind |-> "DROP COLUMN", table |-> current.name, column |-> gone[i].name]]}

\* A reconciler that compares the types of the common columns only.
alter_table_statements_type_only(current, new) ==
    LET current_cols == ColsDict(current.columns, <<>>)
        new_cols == ColsDict(new.columns, <<>>)
        added == SelectSeq(new_cols, LAMBDA col : col.name \notin DictKeys(current_cols))
        add_stmts == [i \in 1..Len(added) |->
                         AddColumn(current.name, added[i].name, added[i].data_type,
                                   NullableKw(added[i].is_nullable))]
        Differs(col) ==
            /\ col.name \in DictKeys(current_cols)
            /\ col.data_type # current_cols[DictGet(current_cols, col.name)].data_type
        changed == SelectSeq(new_cols, Differs)
        alter_stmts == [i \in 1..Len(changed) |->
                           AlterColumn(current.name, changed[i].name, changed[i].data_type,
                                       NullableKw(changed[i].is_nullable))]
        statements == add_stmts \o alter_stmts
    IN  {statements \o FkStatements(current.name, order, Len(statements)) :
            order \in Orderings(Range(new.foreign_keys) \ Range(current.foreign_keys))}

\* SchemaManager._alter_table_statements.  The loop over the set difference
\* visits a set of str, whose iteration order follows the per-process string
\* hash: the result is the set of the statement lists the orders can give.
alter_table_statements(current, new) ==
    LET current_cols == ColsDict(current.columns, <<>>)
        new_cols == ColsDict(new.columns, <<>>)
        added == SelectSeq(new_cols, LAMBDA col : col.name \notin DictKeys(current_cols))
        add_stmts == [i \in 1..Len(added) |->
                         AddColumn(current.name, added[i].name, added[i].data_type,
                                   NullableKw(added[i].is_nullable))]
        Differs(col) ==
            /\ col.name \in DictKeys(current_cols)
            /\ LET current_col == current_cols[DictGet(current_cols, col.name)] IN
               \/ col.data_type # current_col.data_type
               \/ col.is_nullable # current_col.is_nullable
        changed == SelectSeq(new_cols, Differs)
        alter_stmts == [i \in 1..Len(changed) |->
                           AlterColumn(current.name, changed[i].name, changed[i].data_type,
                                       NullableKw(changed[i].is_nullable))]
        statements == add_stmts \o alter_stmts
        current_fks == Range(current.foreign_keys)
        new_fks == Range(new.foreign_keys)
    IN  {statements \o FkStatements(current.name, order, Len(statements)) :
            order \in Orderings(new_fks \ current_fks)}

\* SchemaManager.generate_migration: the set of the statement lists it can
\* return for the declared tables and the snapshot of the current ones.
RECURSIVE generate_migration(_, _)
generate_migration(tables, current) ==
    IF tables = <<>>
    THEN {<<>>}
    ELSE LET new_table == Head(tables)
             first == IF new_table.name \notin DOMAIN current
                      THEN {create_table_statements(new_table)}
                      ELSE alter_table_statements(current[new_table.name], new_table)
         IN  {h \o r : h \in first, r \in generate_migration(Tail(tables), current)}

-----------------------------------------------------------------------------
(* cur.execute(statement): what PostgreSQL does with one statement inside  *)
(* the open transaction.                                                   *)

\* The identifiers a foreign-key clause of the batch can name.
KnownTables == DOMAIN tx \cup DOMAIN current_tables \cup DictKeys(new_tables)

KnownColumns ==
    {"id", "parent_id"}
    \cup UNION {ColumnNames(tx, t) : t \in DOMAIN tx}
    \cup UNION {DictKeys(new_tables[i].columns) : i \in 1..Len(new_tables)}

\* The server's reading of a foreign-key clause: the inverse of FkText.
ParseFk(text) ==
    LET parts == {d \in [column : KnownColumns, ref_table : KnownTables,
                         ref_column : KnownColumns] :
                     FkText(d.column, d.ref_table, d.ref_column) = text}
    IN  CHOOSE d \in parts : TRUE

PrimaryKeyColumns(schema, t) ==
    {schema[t].columns[i].column_name :
        i \in {j \in 1..Len(schema[t].columns) : schema[t].columns[j].is_primary_key}}

\* The statement is one the server refuses whatever the data.
Rejected(schema, s) ==
    CASE s.kind = "CREATE TABLE" ->
            \/ s.table \in DOMAIN schema
            \/ \E i, j \in 1..Len(s.column_defs) :
                  i # j /\ s.column_defs[i].name = s.column_defs[j].name
      [] s.kind = "ADD COLUMN" ->
            \/ s.table \notin DOMAIN schema
            \/ s.column \in ColumnNames(schema, s.table)
      [] s.kind = "ALTER COLUMN" ->
            \/ s.table \notin DOMAIN schema
            \/ s.column \notin ColumnNames(schema, s.table)
            \/ s.data_type = "SERIAL"    \* no such type outside CREATE TABLE / ADD COLUMN
            \/ s.nullable = "NULL"       \* SET NULL is no ALTER COLUMN form
      [] s.kind = "ADD CONSTRAINT" ->
            \/ s.table \notin DOMAIN schema
            \/ LET fk == ParseFk(s.fk) IN
               \/ fk.column \notin ColumnNames(schema, s.table)
               \/ fk.ref_table \notin DOMAIN schema
               \/ /\ fk.ref_table \in DOMAIN schema
                  /\ fk.ref_column \notin PrimaryKeyColumns(schema, fk.ref_table)
               \/ \E c \in schema[s.table].constraints : c.constraint_name = s.constraint
      [] OTHER -> TRUE

IsNullableText(nullable, pk) == IF nullable = "NULL" /\ pk = "" THEN "YES" ELSE "NO"

\* The schema after the statement, when the server accepts it.
Apply(schema, s) ==
    CASE s.kind = "CREATE TABLE" ->
            SchemaPut(schema, s.table,
                CatalogTable(
                    [i \in 1..Len(s.column_defs) |->
                        LET def == s.column_defs[i] IN
                        CatalogColumn(def.name, DataTypeName(def.data_type),
                                      IsNullableText(def.nullable, def.pk),
                                      def.pk = "PRIMARY KEY")],
                    {}))
      [] s.kind = "ADD COLUMN" ->
            SchemaPut(schema, s.table,
                CatalogTable(
                    Append(schema[s.table].columns,
                           CatalogColumn(s.column, DataTypeName(s.data_type),
                                         IsNullableText(s.nullable, ""), FALSE)),
                    schema[s.table].constraints))
      [] s.kind = "ALTER COLUMN" ->
            SchemaPut(schema, s.table,
                CatalogTable(
                    [i \in 1..Len(schema[s.table].columns) |->
                        LET col == schema[s.table].columns[i] IN
                        IF col.column_name = s.column
                        THEN CatalogColumn(col.column_name, DataTypeName(s.data_type),
                                           IsNullableText(s.nullable, ""),
                                           col.is_primary_key)
                        ELSE col],
                    schema[s.table].constraints))
      [] s.kind = "ADD CONSTRAINT" ->
            LET fk == ParseFk(s.fk) IN
            SchemaPut(schema, s.table,
                CatalogTable(
                    schema[s.table].columns,
                    schema[s.table].constraints
                        \cup {CatalogConstraint(s.constraint, fk.column,
                                                fk.ref_table, fk.ref_column)}))

-----------------------------------------------------------------------------
(* The inputs of a run: the database main connects to and the .proto files *)
(* of the directory.                                                       *)

F_name == Field(None, "string", "name")
F_age == Field("required", "int64", "age")
F_tags == Field("repeated", "string", "tags")
F_tags_1 == Field("repeated", "Money", "tags_1")
F_parent_id == Field("required", "int64", "parent_id")
F_value == Field("required", "string", "value")

\* The message blocks of the files a run may find in the directory.
SampleContents ==
    { <<>>,
      <<Message("Root", <<F_name>>)>>,
      <<Message("Root", <<F_name, F_age>>)>>,
      <<Message("Root", <<F_tags>>)>>,
      <<Message("Root", <<F_tags, F_tags_1>>)>>,
      <<Message("Tags", <<F_parent_id, F_value>>)>>,
      <<Message("Root", <<F_tags>>), Message("Tags", <<F_name>>)>>,
      <<Message("Tags", <<F_name>>), Message("TAGS", <<F_age>>)>> }

\* proto_file.stem of the i-th file of the directory.
FileStem(i) == IF i = 1 THEN "widget" ELSE "gadget" \o ToString(i)

\* A database that already holds a widget table with a column no .proto
\* file declares.
LegacySchema ==
    SchemaPut(EmptySchema, "widget",
        CatalogTable(<<CatalogColumn("id", "integer", "NO", TRUE),
                       CatalogColumn("name", "text", "YES", FALSE),
                       CatalogColumn("legacy", "text", "YES", FALSE)>>, {}))

InitialDatabases == {EmptySchema, LegacySchema}

-----------------------------------------------------------------------------
(* Spec: runs of main over the directory.                                  *)

Init ==
    /\ db \in InitialDatabases
    /\ tx = db
    /\ current_tables = get_current_schema(db)
    /\ n_files \in 0..MaxFiles
    /\ file_idx = 1
    /\ proto_file = None
    /\ new_tables = <<>>
    /\ migration_statements = <<>>
    /\ second_statements = <<>>
    /\ stmt_idx = 0
    /\ pc = "loop"
    /\ outcome = None
    /\ schema_before = db
    /\ runs = 1

\* process_proto_file up to the cursor loop: parse, diff, and either return
\* None (nothing to do) or start executing the batch.
ProcessFile ==
    /\ pc = "loop"
    /\ file_idx <= n_files
    /\ \E contents \in SampleContents :
          LET file == ProtoFile(FileStem(file_idx), contents)
              tables == parse_proto_file(file)
          IN  \E statements \in generate_migration(tables, current_tables) :
                /\ proto_file' = file
                /\ new_tables' = tables
                /\ migration_statements' = statements
                /\ IF statements = <<>>
                   THEN /\ outcome' = "unchanged"
                        /\ file_idx' = file_idx + 1
                        /\ pc' = "loop"
                        /\ stmt_idx' = 0
                   ELSE /\ outcome' = None
                        /\ file_idx' = file_idx
                        /\ pc' = "executing"
                        /\ stmt_idx' = 1
    /\ schema_before' = tx
    /\ UNCHANGED <<db, tx, current_tables, n_files, second_statements, runs>>

\* The cursor loop on a connection in autocommit mode: every accepted
\* statement is committed at once.
ExecuteStatementAutocommit ==
    /\ pc = "executing"
    /\ stmt_idx <= Len(migration_statements)
    /\ ~Rejected(tx, migration_statements[stmt_idx])
    /\ tx' = Apply(tx, migration_statements[stmt_idx])
    /\ db' = tx'
    /\ stmt_idx' = stmt_idx + 1
    /\ UNCHANGED <<current_tables, n_files, file_idx, proto_file, new_tables,
                   migration_statements, second_statements, pc, outcome,
                   schema_before, runs>>

\* One iteration of the cursor loop: the server accepts the statement.
ExecuteStatement ==
    /\ pc = "executing"
    /\ stmt_idx <= Len(migration_statements)
    /\ ~Rejected(tx, migration_statements[stmt_idx])
    /\ tx' = Apply(tx, migration_statements[stmt_idx])
    /\ stmt_idx' = stmt_idx + 1
    /\ UNCHANGED <<db, current_tables, n_files, file_idx, proto_file, new_tables,
                   migration_statements, second_statements, pc, outcome,
                   schema_before, runs>>

\* A handler that rolls back and swallows the exception, so that main's loop
\* goes on with the next file.
RaiseAndContinue ==
    /\ pc = "executing"
    /\ tx' = db
    /\ outcome' = "failed"
    /\ file_idx' = file_idx + 1
    /\ pc' = "loop"
    /\ UNCHANGED <<db, current_tables, n_files, proto_file, new_tables,
                   migration_statements, second_statements, stmt_idx,
                   schema_before, runs>>

\* cur.execute or conn.commit raises (a refused statement, a failed cast, a
\* lost connection): the handler rolls back and re-raises; main has no handler
\* inside its loop, so the exception ends the run.
RaiseAndRollback ==
    /\ pc = "executing"
    /\ tx' = db
    /\ outcome' = "failed"
    /\ pc' = "aborted"
    /\ UNCHANGED <<db, current_tables, n_files, file_idx, proto_file, new_tables,
                   migration_statements, second_statements, stmt_idx,
                   schema_before, runs>>

\* conn.commit() after the last statement, and the return to main's loop.
Commit ==
    /\ pc = "executing"
    /\ stmt_idx = Len(migration_statements) + 1
    /\ db' = tx
    /\ outcome' = "migrated"
    /\ file_idx' = file_idx + 1
    /\ pc' = "loop"
    /\ UNCHANGED <<tx, current_tables, n_files, proto_file, new_tables,
                   migration_statements, second_statements, stmt_idx,
                   schema_before, runs>>

\* main's loop is over: the summary is logged and the connection closed.
Finish ==
    /\ pc = "loop"
    /\ file_idx > n_files
    /\ pc' = "finished"
    /\ UNCHANGED <<db, tx, current_tables, n_files, file_idx, proto_file, new_tables,
                   migration_statements, second_statements, stmt_idx, outcome,
                   schema_before, runs>>

\* The tool is invoked again: a new SchemaManager reads the schema afresh.
NewRun ==
    /\ pc \in {"finished", "aborted"}
    /\ runs < MaxRuns
    /\ runs' = runs + 1
    /\ current_tables' = get_current_schema(db)
    /\ tx' = db
    /\ n_files' \in 0..MaxFiles
    /\ file_idx' = 1
    /\ proto_file' = None
    /\ new_tables' = <<>>
    /\ migration_statements' = <<>>
    /\ stmt_idx' = 0
    /\ pc' = "loop"
    /\ outcome' = None
    /\ schema_before' = db
    /\ UNCHANGED <<db, second_statements>>

Next ==
    \/ ProcessFile
    \/ ExecuteStatement
    \/ RaiseAndRollback
    \/ Commit
    \/ Finish
    \/ NewRun

Spec == Init /\ [][Next]_vars

-----------------------------------------------------------------------------
(* SpecTranslate: parse_proto_file as a function of the file.              *)

FieldUniverse == {F_name, F_age, F_tags, F_tags_1, F_parent_id, F_value}

MessageNames == {"Root", "Tags", "TAGS"}

Messages == {Message(n, fs) : n \in MessageNames, fs \in SeqsUpTo(FieldUniverse, MaxFields)}

GeneratedFiles == {ProtoFile("widget", ms) : ms \in SeqsUpTo(Messages, MaxMessages)}

InitTranslate ==
    /\ proto_file \in GeneratedFiles
    /\ new_tables = <<>>
    /\ pc = "translate"
    /\ db = EmptySchema
    /\ tx = EmptySchema
    /\ current_tables = get_current_schema(EmptySchema)
    /\ n_files = 1
    /\ file_idx = 1
    /\ migration_statements = <<>>
    /\ second_statements = <<>>
    /\ stmt_idx = 0
    /\ outcome = None
    /\ schema_before = EmptySchema
    /\ runs = 1

Translate ==
    /\ pc = "translate"
    /\ new_tables' = parse_proto_file(proto_file)
    /\ pc' = "translated"
    /\ UNCHANGED <<db, tx, current_tables, n_files, file_idx, proto_file,
                   migration_statements, second_statements, stmt_idx, outcome,
                   schema_before, runs>>

NextTranslate == Translate

SpecTranslate == InitTranslate /\ [][NextTranslate]_vars

-----------------------------------------------------------------------------
(* SpecReconcile: generate_migration as a function of the declared tables  *)
(* and of the current ones, called twice on the same arguments.            *)

ColumnChoices ==
    { Column("id", "INTEGER", FALSE, TRUE),
      Column("name", "TEXT", TRUE, FALSE),
      Column("age", "INTEGER", TRUE, FALSE),
      Column("age", "INTEGER", FALSE, FALSE),
      Column("age", "BIGINT", FALSE, FALSE) }

FkChoices == {FkText("owner_id", "owner", "id"), FkText("group_id", "team", "id")}

UniqueNames(columns) ==
    \A i, j \in 1..Len(columns) : i # j => columns[i].name # columns[j].name

\* Well-formed tables: column names unique within the table, no foreign key
\* listed twice.
ModelTables(name) ==
    {Table(name, columns, fks) :
        columns \in {c \in SeqsUpTo(ColumnChoices, MaxCols) : UniqueNames(c)},
        fks \in {f \in SeqsUpTo(FkChoices, MaxFks) : NoDuplicates(f)}}

OtherTable == Table("legacy", <<Column("id", "INTEGER", FALSE, TRUE)>>, <<>>)

CurrentModels ==
    LET none == [t \in {} |-> OtherTable] IN
    {none, [t \in {"legacy"} |-> OtherTable]}
    \cup {[t \in {"t"} |-> c] : c \in ModelTables("t")}
    \cup {[t \in {"t", "legacy"} |-> IF t = "t" THEN c ELSE OtherTable] :
             c \in ModelTables("t")}

InitReconcile ==
    /\ new_tables \in {<<t>> : t \in ModelTables("t")}
    /\ current_tables \in CurrentModels
    /\ migration_statements = <<>>
    /\ second_statements = <<>>
    /\ pc = "reconcile"
    /\ db = EmptySchema
    /\ tx = EmptySchema
    /\ n_files = 1
    /\ file_idx = 1
    /\ proto_file = None
    /\ stmt_idx = 0
    /\ outcome = None
    /\ schema_before = EmptySchema
    /\ runs = 1

Reconcile ==
    /\ pc = "reconcile"
    /\ migration_statements' \in generate_migration(new_tables, current_tables)
    /\ pc' = "reconciled"
    /\ UNCHANGED <<db, tx, current_tables, n_files, file_idx, proto_file, new_tables,
                   second_statements, stmt_idx, outcome, schema_before, runs>>

\* The same call in another process, whose string hashes are its own.
ReconcileAgain ==
    /\ pc = "reconciled"
    /\ second_statements' \in generate_migration(new_tables, current_tables)
    /\ pc' = "reconciled_twice"
    /\ UNCHANGED <<db, tx, current_tables, n_files, file_idx, proto_file, new_tables,
                   migration_statements, stmt_idx, outcome, schema_before, runs>>

NextReconcile == Reconcile \/ ReconcileAgain

SpecReconcile == InitReconcile /\ [][NextReconcile]_vars

-----------------------------------------------------------------------------
(* Properties of the runs of main (Spec).                                  *)

AddConstraintIndexes ==
    {i \in 1..Len(migration_statements) : migration_statements[i].kind = "ADD CONSTRAINT"}

\* C1 (idempotence): once a file's batch has been applied and committed,
\* reconciling the same declared tables against the schema read afresh from
\* the database returns no statement.
C1_Idempotence ==
    outcome = "migrated" =>
        generate_migration(new_tables, get_current_schema(db)) = {<<>>}

\* C2 (all-or-nothing): the committed schema changes only by the commit that
\* follows the last statement of a batch, and then to the result of the whole
\* batch; when a batch fails, the schema, committed and as seen by the
\* connection, is the one the batch started from.
C2_AllOrNothing ==
    [][ /\ db' # db =>
              /\ pc = "executing"
              /\ stmt_idx = Len(migration_statements) + 1
              /\ db' = tx
        /\ (pc = "executing" /\ outcome' = "failed") =>
              /\ db' = schema_before
              /\ tx' = schema_before ]_vars

\* A batch failed after some of its statements had been executed, and the
\* database is as it was before the batch.
C2_Witness ==
    /\ outcome = "failed"
    /\ pc = "aborted"
    /\ stmt_idx > 1
    /\ db = schema_before
    /\ tx = schema_before

\* C3 (statement ordering): in a batch, every ADD CONSTRAINT comes after the
\* table and column it references exist: they are in the current model or an
\* earlier CREATE TABLE of the batch makes them.
C3_ConstraintsFollowTheirTables ==
    pc = "executing" =>
        \A i \in AddConstraintIndexes :
            LET fk == ParseFk(migration_statements[i].fk) IN
            \/ /\ fk.ref_table \in DOMAIN current_tables
               /\ fk.ref_column \in DictKeys(current_tables[fk.ref_table].columns)
            \/ \E j \in 1..(i - 1) :
                  /\ migration_statements[j].kind = "CREATE TABLE"
                  /\ migration_statements[j].table = fk.ref_table
                  /\ fk.ref_column \in DictKeys(migration_statements[j].column_defs)

\* C5 as claimed (per-file isolation): after a failed batch the run goes on
\* with the files that remain: it has not ended while files come after the
\* failed one.
C5_PerFileIsolation ==
    (outcome = "failed" /\ file_idx < n_files) => pc \notin {"finished", "aborted"}

\* C5 as amended: a failing batch is rolled back and ends the run at that file;
\* nothing happens after it but a new invocation of the tool.
C5_FailureEndsTheRun ==
    [][ /\ (pc = "executing" /\ outcome' = "failed") =>
              /\ tx' = schema_before
              /\ db' = schema_before
              /\ pc' = "aborted"
              /\ file_idx' = file_idx
        /\ pc = "aborted" => (runs' = runs + 1 /\ pc' = "loop" /\ file_idx' = 1) ]_vars

\* A batch failed while files of the directory were still to be processed.
C5_Witness ==
    /\ pc = "aborted"
    /\ outcome = "failed"
    /\ file_idx < n_files

\* C8 (constraint-name uniqueness): no two ADD CONSTRAINT statements of a
\* batch carry the same constraint name.
C8_ConstraintNamesUnique ==
    pc = "executing" =>
        \A i, j \in AddConstraintIndexes :
            i # j => migration_statements[i].constraint # migration_statements[j].constraint

-----------------------------------------------------------------------------
(* Properties of parse_proto_file (SpecTranslate).                         *)

\* A file as protoc accepts it: message names pairwise different, field names
\* pairwise different within a message.
WellFormedFile(file) ==
    /\ \A i, j \in 1..Len(file.messages) :
          i # j => file.messages[i].name # file.messages[j].name
    /\ \A i \in 1..Len(file.messages) :
          \A k, l \in 1..Len(file.messages[i].fields) :
              k # l => file.messages[i].fields[k].name # file.messages[i].fields[l].name

RepeatedFields(m) == {k \in 1..Len(m.fields) : m.fields[k].modifier = "repeated"}

\* C9 (repeated-field expansion): every repeated field f of type t of a message
\* gives the table parent_f with the columns id, parent_id BIGINT NOT NULL and
\* value of the mapped type NOT NULL and the one foreign key parent_id ->
\* parent.id; the parent table has no column f, no foreign key and id first.
C9_RepeatedFieldExpansion ==
    (pc = "translated" /\ WellFormedFile(proto_file)) =>
        \A i \in 1..Len(proto_file.messages) :
            LET m == proto_file.messages[i]
                parent == TableNameOf(Lower(proto_file.stem), m.name)
            IN  \A k \in RepeatedFields(m) :
                    LET f == m.fields[k]
                        child == parent \o "_" \o f.name
                    IN  /\ child \in DictKeys(new_tables)
                        /\ new_tables[DictGet(new_tables, child)] =
                              Table(child,
                                    <<Column("id", "SERIAL", FALSE, TRUE),
                                      Column("parent_id", "BIGINT", FALSE, FALSE),
                                      Column("value", MappedType(f.type), FALSE, FALSE)>>,
                                    <<FkText("parent_id", parent, "id")>>)
                        /\ parent \in DictKeys(new_tables)
                        /\ LET p == new_tables[DictGet(new_tables, parent)] IN
                           /\ p.foreign_keys = <<>>
                           /\ p.columns # <<>>
                           /\ p.columns[1] = Column("id", "SERIAL", FALSE, TRUE)
                           /\ f.name \notin DictKeys(p.columns)

\* C10 (collision-free naming): different messages of a file get different
\* table names, and the mapping holds one table per message and one per
\* repeated field: no entry replaces another.
C10_CollisionFreeNames ==
    (pc = "translated" /\ WellFormedFile(proto_file)) =>
        /\ \A i, j \in 1..Len(proto_file.messages) :
              i # j => TableNameOf(Lower(proto_file.stem), proto_file.messages[i].name)
                       # TableNameOf(Lower(proto_file.stem), proto_file.messages[j].name)
        /\ Len(new_tables) =
              Len(proto_file.messages)
              + Len(SelectSeq(Flatten([i \in 1..Len(proto_file.messages) |->
                                          proto_file.messages[i].fields]),
                              LAMBDA f : f.modifier = "repeated"))

-----------------------------------------------------------------------------
(* Properties of generate_migration (SpecReconcile).                       *)

Declared == new_tables[1]

StatementsOfKind(statements, kind) == SelectSeq(statements, LAMBDA s : s.kind = kind)

C6_ExactDiff ==
    (pc = "reconciled" /\ Declared.name \in DOMAIN current_tables) =>
        LET cur == current_tables[Declared.name]
            CurrentColumn(name) == CHOOSE c \in Range(cur.columns) : c.name = name
            Absent(col) == \A c \in Range(cur.columns) : c.name # col.name
            Drifted(col) ==
                /\ ~Absent(col)
                /\ \/ CurrentColumn(col.name).data_type # col.data_type
                   \/ CurrentColumn(col.name).is_nullable # col.is_nullable
            absent == SelectSeq(Declared.columns, Absent)
            drifted == SelectSeq(Declared.columns, Drifted)
            new_fks == Range(Declared.foreign_keys) \ Range(cur.foreign_keys)
            adds == StatementsOfKind(migration_statements, "ADD COLUMN")
            alters == StatementsOfKind(migration_statements, "ALTER COLUMN")
            constraints == StatementsOfKind(migration_statements, "ADD CONSTRAINT")
        IN  /\ adds = [i \in 1..Len(absent) |->
                          [kind |-> "ADD COLUMN", table |-> Declared.name,
                           column |-> absent[i].name, data_type |-> absent[i].data_type,
                           nullable |-> IF absent[i].is_nullable THEN "NULL" ELSE "NOT NULL"]]
            /\ alters = [i \in 1..Len(drifted) |->
                          [kind |-> "ALTER COLUMN", table |-> Declared.name,
                           column |-> drifted[i].name, data_type |-> drifted[i].data_type,
                           nullable |-> IF drifted[i].is_nullable THEN "NULL" ELSE "NOT NULL"]]
            /\ Len(constraints) = Cardinality(new_fks)
            /\ {constraints[i].fk : i \in 1..Len(constraints)} = new_fks
            /\ \A i \in 1..Len(constraints) : constraints[i].table = Declared.name
            /\ migration_statements = adds \o alters \o constraints
            /\ (Declared.columns = cur.columns /\ new_fks = {}) => migration_statements = <<>>

\* An existing table got a new column, a changed column and a new foreign key
\* in one batch.
C6_Witness ==
    /\ pc = "reconciled"
    /\ Declared.name \in DOMAIN current_tables
    /\ StatementsOfKind(migration_statements, "ADD COLUMN") # <<>>
    /\ StatementsOfKind(migration_statements, "ALTER COLUMN") # <<>>
    /\ StatementsOfKind(migration_statements, "ADD CONSTRAINT") # <<>>

\* C7 (determinism): two calls with the same declared and current tables
\* return the same statements in the same order with the same constraint
\* names.
C7_Determinism ==
    pc = "reconciled_twice" => second_statements = migration_statements

====
